---- MODULE Spec2Model ----
(***************************************************************************)
(* Model of examples/python-async-client.py: UniversalAIClient, a thin     *)
(* adapter over three chat-completion HTTP APIs.                           *)
(*                                                                         *)
(* Python strings are sequences of symbols (the empty string is << >>),    *)
(* so that concatenation, emptiness and containment are computed.  JSON    *)
(* values are tagged records [t, v].  Exceptions are records               *)
(* [type, fmt, provider, status, detail]: the Python exception class, the  *)
(* fixed part of its message and the values interpolated into it.          *)
(***************************************************************************)
EXTENDS Integers, Sequences, FiniteSets, TLC

VARIABLES environ, envset, client, config, constructError,
          pc, args, session, nextSession, posts, resp, outcome, extracted

vars == <<environ, envset, client, config, constructError,
          pc, args, session, nextSession, posts, resp, outcome, extracted>>

-----------------------------------------------------------------------------
(* Bounds *)

NumCalls == 2

(* one caller for the sequential contract of chat, NumCalls for interleavings *)
Calls == {1}
CallsConc == 1..NumCalls

-----------------------------------------------------------------------------
(* Program constants *)

DefaultMaxTokens == 1000
(* temperature in tenths: the default 0.7 *)
DefaultTemperature == 7
PostTimeout == 30
HTTP_OK == 200

Providers == {"openai", "claude", "gemini"}
ProviderOrder == <<"openai", "claude", "gemini">>

EnvVar(p) ==
    CASE p = "openai" -> "OPENAI_API_KEY"
      [] p = "claude" -> "ANTHROPIC_API_KEY"
      [] p = "gemini" -> "GOOGLE_API_KEY"

EnvVars == {EnvVar(p) : p \in Providers}

OpenAIUrl == <<"https://api.openai.com/v1/chat/completions">>
ClaudeUrl == <<"https://api.anthropic.com/v1/messages">>
GeminiUrl == <<"https://generativelanguage.googleapis.com/v1beta/models/gemini-1.5-pro:generateContent">>

DefaultOpenAIModel == <<"gpt-4o">>
DefaultClaudeModel == <<"claude-3-5-sonnet-20241022">>

-----------------------------------------------------------------------------
(* Optional[str] *)

None == [some |-> FALSE, s |-> << >>]
Some(s) == [some |-> TRUE, s |-> s]

(* Python truthiness of an Optional[str]: None and '' are falsy *)
Truthy(o) == o.some /\ o.s # << >>

(* `a or b` for an Optional[str] a and a str b *)
OrElse(o, d) == IF Truthy(o) THEN o.s ELSE d

(* sub occurs in s as a contiguous run of symbols *)
Contains(s, sub) ==
    \E i \in 0..(Len(s) - Len(sub)) : SubSeq(s, i + 1, i + Len(sub)) = sub

-----------------------------------------------------------------------------
(* os.getenv(name, '') *)

GetEnv(env, set, name) == IF name \in set THEN env[name] ELSE << >>

(* ProviderConfig records built by __init__ *)
BuildConfig(env, set) ==
    [p \in Providers |->
        CASE p = "openai" ->
               [url |-> OpenAIUrl, key |-> GetEnv(env, set, "OPENAI_API_KEY"),
                header |-> <<"Authorization">>, prefix |-> <<"Bearer ">>,
                version_header |-> None]
          [] p = "claude" ->
               [url |-> ClaudeUrl, key |-> GetEnv(env, set, "ANTHROPIC_API_KEY"),
                header |-> <<"x-api-key">>, prefix |-> << >>,
                version_header |-> Some(<<"2023-06-01">>)]
          [] p = "gemini" ->
               [url |-> GeminiUrl, key |-> GetEnv(env, set, "GOOGLE_API_KEY"),
                header |-> << >>, prefix |-> << >>,
                version_header |-> None]]

NoExc == [type |-> "", fmt |-> "", provider |-> "", status |-> 0, detail |-> << >>]

Exc(type, fmt, provider, status, detail) ==
    [type |-> type, fmt |-> fmt, provider |-> provider, status |-> status,
     detail |-> detail]

(* faulty variant: only the first provider of the mapping is validated *)
ValidateConfigFirstOnly(cfg) ==
    IF cfg[ProviderOrder[1]].key = << >>
    THEN Exc("ValueError", "Missing API key for", ProviderOrder[1], 0, << >>)
    ELSE NoExc

(* _validate_config: the first provider, in dict order, whose key is empty *)
RECURSIVE ValidateFrom(_, _)
ValidateFrom(cfg, i) ==
    IF i > Len(ProviderOrder) THEN NoExc
    ELSE IF cfg[ProviderOrder[i]].key = << >>
         THEN Exc("ValueError", "Missing API key for", ProviderOrder[i], 0, << >>)
         ELSE ValidateFrom(cfg, i + 1)

ValidateConfig(cfg) == ValidateFrom(cfg, 1)

-----------------------------------------------------------------------------
(* JSON values, as json.loads / resp.json() yields them *)

Obj(f) == [t |-> "obj", v |-> f]
List(s) == [t |-> "list", v |-> s]
Str(s) == [t |-> "str", v |-> s]
Null == [t |-> "null", v |-> << >>]

EmptyObj == Obj(<< >>)
EmptyList == List(<< >>)

(* a subscript: x['name'] or x[i] *)
Key(name) == [kind |-> "key", name |-> name, i |-> 0]
Idx(i) == [kind |-> "idx", name |-> "", i |-> i]

(* str(e) of the KeyError / IndexError a failed subscript raises *)
KeyRepr(k) == IF k.kind = "key" THEN <<"'", k.name, "'">> ELSE <<"0">>

Found(val) == [ok |-> TRUE, val |-> val, err |-> "", arg |-> << >>]
Fail(err, arg) == [ok |-> FALSE, val |-> Null, err |-> err, arg |-> arg]

(* Python's x[k] on a decoded JSON value *)
Subscript(x, k) ==
    CASE x.t = "obj" ->
           IF k.kind = "key" /\ k.name \in DOMAIN x.v
           THEN Found(x.v[k.name])
           ELSE Fail("KeyError", KeyRepr(k))
      [] x.t = "list" ->
           IF k.kind = "idx"
           THEN IF k.i + 1 <= Len(x.v)
                THEN Found(x.v[k.i + 1])
                ELSE Fail("IndexError", <<"list index out of range">>)
           ELSE Fail("TypeError", <<"list indices must be integers">>)
      [] x.t = "str" ->
           IF k.kind = "idx"
           THEN IF k.i + 1 <= Len(x.v)
                THEN Found(Str(<<x.v[k.i + 1]>>))
                ELSE Fail("IndexError", <<"string index out of range">>)
           ELSE Fail("TypeError", <<"string indices must be integers">>)
      [] OTHER -> Fail("TypeError", <<"'NoneType' object is not subscriptable">>)

(* a chain of subscripts data[k1][k2]..., stopping at the first that raises;
   each subscript is evaluated once and the rest of the chain runs on its
   result *)
RECURSIVE Navigate(_, _)
Navigate(x, path) ==
    IF path = << >> THEN Found(x)
    ELSE CHOOSE res \in {IF r.ok THEN Navigate(r.val, Tail(path)) ELSE r :
                            r \in {Subscript(x, Head(path))}} : TRUE

(* faulty variant: the openai and claude branches read each other's path *)
ExtractPathSwapped(provider) ==
    CASE provider = "claude" ->
           <<Key("choices"), Idx(0), Key("message"), Key("content")>>
      [] provider = "openai" ->
           <<Key("content"), Idx(0), Key("text")>>
      [] provider = "gemini" ->
           <<Key("candidates"), Idx(0), Key("content"), Key("parts"), Idx(0),
             Key("text")>>

(* the field path _extract_response reads for each provider *)
ExtractPath(provider) ==
    CASE provider = "openai" ->
           <<Key("choices"), Idx(0), Key("message"), Key("content")>>
      [] provider = "claude" ->
           <<Key("content"), Idx(0), Key("text")>>
      [] provider = "gemini" ->
           <<Key("candidates"), Idx(0), Key("content"), Key("parts"), Idx(0),
             Key("text")>>

(* outcome of a call or of a helper: a returned value or a raised exception *)
Returned(val) == [kind |-> "returned", value |-> val, exc |-> NoExc]
Raised(e) == [kind |-> "raised", value |-> Null, exc |-> e]
Pending == [kind |-> "none", value |-> Null, exc |-> NoExc]

(* faulty variant: the except clause catches KeyError only *)
ExtractResponseKeyErrorOnly(provider, data) ==
    LET r == Navigate(data, ExtractPath(provider))
    IN  IF r.ok THEN Returned(r.val)
        ELSE IF r.err = "KeyError"
             THEN Raised(Exc("RuntimeError", "Invalid response format",
                             provider, 0, r.arg))
             ELSE Raised(Exc(r.err, "", "", 0, r.arg))

(* faulty variant: the except clause re-raises as ValueError *)
ExtractResponseValueError(provider, data) ==
    LET r == Navigate(data, ExtractPath(provider))
    IN  IF r.ok THEN Returned(r.val)
        ELSE IF r.err \in {"KeyError", "IndexError"}
             THEN Raised(Exc("ValueError", "Invalid response format",
                             provider, 0, r.arg))
             ELSE Raised(Exc(r.err, "", "", 0, r.arg))

(* _extract_response: KeyError and IndexError become RuntimeError, any other
   exception of the subscripts propagates as it is *)
ExtractResponse(provider, data) ==
    IF provider \in Providers
    THEN LET r == Navigate(data, ExtractPath(provider))
         IN  IF r.ok THEN Returned(r.val)
             ELSE IF r.err \in {"KeyError", "IndexError"}
                  THEN Raised(Exc("RuntimeError", "Invalid response format",
                                  provider, 0, r.arg))
                  ELSE Raised(Exc(r.err, "", "", 0, r.arg))
    ELSE Raised(Exc("ValueError", "Unknown provider", provider, 0, << >>))

-----------------------------------------------------------------------------
(* Python dict as a function; d[k] = v inserts or overwrites *)

DictSet(d, k, v) == [x \in (DOMAIN d) \cup {k} |-> IF x = k THEN v ELSE d[x]]

ContentTypeHeader == <<"Content-Type">>
JsonContentType == <<"application/json">>
VersionHeaderName == <<"anthropic-version">>

(* faulty variant: every provider but openai gets the raw key in cfg.header *)
BuildHeadersKeyForAll(provider, cfg) ==
    LET headers == DictSet(<< >>, <<"Content-Type">>, <<"application/json">>)
    IN  IF provider = "openai"
        THEN DictSet(headers, cfg.header, cfg.prefix \o cfg.key)
        ELSE DictSet(headers, cfg.header, cfg.key)

(* _build_headers *)
BuildHeaders(provider, cfg) ==
    LET headers == DictSet(<< >>, ContentTypeHeader, JsonContentType)
    IN  CASE provider = "openai" ->
               DictSet(headers, cfg.header, cfg.prefix \o cfg.key)
          [] provider = "claude" ->
               DictSet(DictSet(headers, cfg.header, cfg.key),
                       VersionHeaderName, cfg.version_header.s)
          [] OTHER -> headers

UserMessage(prompt) == [role |-> <<"user">>, content |-> prompt]

(* _build_payload; the gemini payload has no model entry *)
BuildPayload(provider, prompt, model, max_tokens, temperature) ==
    CASE provider = "openai" ->
           Returned([model |-> OrElse(model, DefaultOpenAIModel),
                     messages |-> <<UserMessage(prompt)>>,
                     max_tokens |-> max_tokens,
                     temperature |-> temperature])
      [] provider = "claude" ->
           Returned([model |-> OrElse(model, DefaultClaudeModel),
                     max_tokens |-> max_tokens,
                     messages |-> <<UserMessage(prompt)>>,
                     temperature |-> temperature])
      [] provider = "gemini" ->
           Returned([contents |-> <<[parts |-> <<[text |-> prompt]>>]>>,
                     generationConfig |-> [temperature |-> temperature,
                                           maxOutputTokens |-> max_tokens]])
      [] OTHER ->
           Raised(Exc("ValueError", "Unknown provider", provider, 0, << >>))

(* the URL chat posts to: the key is appended for gemini only *)
RequestUrl(provider, cfg) ==
    IF provider = "gemini" THEN cfg.url \o <<"?key=">> \o cfg.key ELSE cfg.url

(* `provider not in self.config` *)
ProviderKnown(cfg, provider) == provider \in DOMAIN cfg

(* the session.post(...) call of chat *)
BuildRequest(sid, provider, cfg, a) ==
    [session |-> sid,
     url |-> RequestUrl(provider, cfg),
     headers |-> BuildHeaders(provider, cfg),
     json |-> BuildPayload(provider, a.prompt, a.model, a.max_tokens,
                           a.temperature).value,
     timeout |-> PostTimeout]

-----------------------------------------------------------------------------
(* Inputs of the caller and answers of the remote side *)

ApiKey(p) ==
    CASE p = "openai" -> <<"sk-openai">>
      [] p = "claude" -> <<"sk-ant">>
      [] p = "gemini" -> <<"AIza">>

ProviderInputs == Providers \cup {"unknown"}
Prompts == {<<"hi">>, <<"What is ", "prompt injection?">>}
Models == {None, Some(<< >>), Some(<<"custom-model">>)}
MaxTokensInputs == {DefaultMaxTokens, 100}
TemperatureInputs == {DefaultTemperature, 0}

ChatArgs ==
    [provider : ProviderInputs, prompt : Prompts, model : Models,
     max_tokens : MaxTokensInputs, temperature : TemperatureInputs]

ChatArgsConc ==
    [provider : ProviderInputs, prompt : {<<"hi">>}, model : {None},
     max_tokens : {DefaultMaxTokens}, temperature : {DefaultTemperature}]

NoArgs == [provider |-> "", prompt |-> << >>, model |-> None,
           max_tokens |-> 0, temperature |-> 0]

(* the JSON value that holds leaf at the end of path *)
RECURSIVE Build(_, _)
Build(path, leaf) ==
    IF path = << >> THEN leaf
    ELSE IF Head(path).kind = "key"
         THEN Obj(Head(path).name :> Build(Tail(path), leaf))
         ELSE List(<<Build(Tail(path), leaf)>>)

(* the reply format of each provider's API: where the reply text sits *)
ReplyShape(p) ==
    CASE p = "openai" ->
           <<Key("choices"), Idx(0), Key("message"), Key("content")>>
      [] p = "claude" ->
           <<Key("content"), Idx(0), Key("text")>>
      [] p = "gemini" ->
           <<Key("candidates"), Idx(0), Key("content"), Key("parts"), Idx(0),
             Key("text")>>

Texts == {<<"hello">>, <<"y", "o">>}

WellFormed(p, text) == Build(ReplyShape(p), Str(text))

(* what a response may hold in place of the expected value *)
Departures ==
    {EmptyObj, EmptyList, Null, Str(<<"x">>), Obj("error" :> Str(<<"bad">>))}

(* the expected shape of p down to depth d, with x in place of the rest *)
Broken(p, d, x) == Build(SubSeq(ReplyShape(p), 1, d), x)

(* one body that is well formed for all three providers at once *)
OwnText(p) ==
    CASE p = "openai" -> <<"from-openai">>
      [] p = "claude" -> <<"from-claude">>
      [] p = "gemini" -> <<"from-gemini">>

Mixed ==
    Obj(WellFormed("openai", OwnText("openai")).v
        @@ WellFormed("claude", OwnText("claude")).v
        @@ WellFormed("gemini", OwnText("gemini")).v)

JsonDocs ==
    {WellFormed(p, text) : p \in Providers, text \in Texts}
    \cup UNION {{Broken(p, d, x) : d \in 0..Len(ReplyShape(p)), x \in Departures}
                : p \in Providers}
    \cup {Mixed}

(* the body text of a JSON value *)
RECURSIVE Serialize(_)
RECURSIVE SerializeItems(_)
RECURSIVE SerializeMembers(_, _)
KeyOrder == <<"candidates", "choices", "content", "error", "message", "parts", "text">>
Serialize(x) ==
    CASE x.t = "null" -> <<"null">>
      [] x.t = "str" -> <<"\"">> \o x.v \o <<"\"">>
      [] x.t = "list" -> <<"[">> \o SerializeItems(x.v) \o <<"]">>
      [] x.t = "obj" -> <<"{">> \o SerializeMembers(x.v, 1) \o <<"}">>
SerializeItems(items) ==
    IF items = << >> THEN << >>
    ELSE Serialize(Head(items))
         \o (IF Len(items) > 1 THEN <<",">> ELSE << >>)
         \o SerializeItems(Tail(items))
SerializeMembers(f, i) ==
    IF i > Len(KeyOrder) THEN << >>
    ELSE (IF KeyOrder[i] \in DOMAIN f
          THEN <<"\"", KeyOrder[i], "\":">> \o Serialize(f[KeyOrder[i]]) \o <<",">>
          ELSE << >>)
         \o SerializeMembers(f, i + 1)

JsonBody(doc) ==
    [raw |-> Serialize(doc), ctype |-> JsonContentType, isJson |-> TRUE,
     data |-> doc]

NoBody == [raw |-> << >>, ctype |-> << >>, isJson |-> FALSE, data |-> Null]

OtherBodies ==
    {[raw |-> <<"server error">>, ctype |-> <<"text/plain">>, isJson |-> FALSE,
      data |-> Null],
     [raw |-> <<"{", "\"choices\":">>, ctype |-> JsonContentType,
      isJson |-> FALSE, data |-> Null],
     [raw |-> Serialize(Mixed), ctype |-> <<"text/html">>, isJson |-> TRUE,
      data |-> Mixed]}

Bodies == {JsonBody(doc) : doc \in JsonDocs} \cup OtherBodies

BodiesConc == {JsonBody(Mixed), JsonBody(EmptyObj)}

Statuses == {HTTP_OK, 201, 500}
StatusesConc == {HTTP_OK, 500}

Responses == [status : Statuses, body : Bodies]
ResponsesConc == [status : StatusesConc, body : BodiesConc]

NoResp == [status |-> 0, body |-> NoBody]

(* what session.post can raise instead of yielding a response *)
PostErrors == {"TimeoutError", "ClientConnectorError"}
(* what reading the body can raise *)
ReadErrors == {"TimeoutError", "ClientPayloadError"}

PostErrorsConc == {"TimeoutError"}
ReadErrorsConc == {"TimeoutError"}

NoSession == [id |-> 0, state |-> "none"]

-----------------------------------------------------------------------------
(* chat, up to its suspension at session.post *)

(* faulty variant: the session is opened before the provider is checked *)
StartChatSessionFirst(cfg, sid, a) ==
    IF ~(a.provider \in DOMAIN cfg)
    THEN [pc |-> "done",
          outcome |-> Raised(Exc("ValueError", "Unknown provider", a.provider,
                                 0, << >>)),
          session |-> [id |-> sid, state |-> "closed"],
          posts |-> << >>]
    ELSE [pc |-> "posted",
          outcome |-> Pending,
          session |-> [id |-> sid, state |-> "open"],
          posts |-> <<BuildRequest(sid, a.provider, cfg[a.provider], a)>>]

(* faulty variant: one session, made once, is shared by all calls *)
StartChatSharedSession(cfg, sid, a) ==
    IF ~(a.provider \in DOMAIN cfg)
    THEN [pc |-> "done",
          outcome |-> Raised(Exc("ValueError", "Unknown provider", a.provider,
                                 0, << >>)),
          session |-> NoSession,
          posts |-> << >>]
    ELSE [pc |-> "posted",
          outcome |-> Pending,
          session |-> [id |-> 1, state |-> "open"],
          posts |-> <<BuildRequest(1, a.provider, cfg[a.provider], a)>>]

(* the provider check, then the session, the request and the POST *)
StartChat(cfg, sid, a) ==
    IF ~ProviderKnown(cfg, a.provider)
    THEN [pc |-> "done",
          outcome |-> Raised(Exc("ValueError", "Unknown provider", a.provider,
                                 0, << >>)),
          session |-> NoSession,
          posts |-> << >>]
    ELSE [pc |-> "posted",
          outcome |-> Pending,
          session |-> [id |-> sid, state |-> "open"],
          posts |-> <<BuildRequest(sid, a.provider, cfg[a.provider], a)>>]

(* faulty variant: every 2xx status is taken as success *)
HandleResponseAny2xx(provider, r) ==
    IF r.status < 200 \/ r.status >= 300
    THEN [outcome |-> Raised(Exc("RuntimeError", "API error: HTTP", provider,
                                 r.status, r.body.raw)),
          extracted |-> FALSE]
    ELSE IF r.body.ctype # <<"application/json">>
    THEN [outcome |-> Raised(Exc("ContentTypeError", "", "", r.status, << >>)),
          extracted |-> FALSE]
    ELSE IF ~r.body.isJson
    THEN [outcome |-> Raised(Exc("JSONDecodeError", "", "", 0, << >>)),
          extracted |-> FALSE]
    ELSE [outcome |-> ExtractResponse(provider, r.body.data),
          extracted |-> TRUE]

(* chat, after the response arrived: status check, decoding, extraction *)
HandleResponse(provider, r) ==
    IF r.status # HTTP_OK
    THEN [outcome |-> Raised(Exc("RuntimeError", "API error: HTTP", provider,
                                 r.status, r.body.raw)),
          extracted |-> FALSE]
    ELSE IF r.body.ctype # JsonContentType
    THEN [outcome |-> Raised(Exc("ContentTypeError", "", "", r.status, << >>)),
          extracted |-> FALSE]
    ELSE IF ~r.body.isJson
    THEN [outcome |-> Raised(Exc("JSONDecodeError", "", "", 0, << >>)),
          extracted |-> FALSE]
    ELSE [outcome |-> ExtractResponse(provider, r.body.data),
          extracted |-> TRUE]

Closed(sess) == [sess EXCEPT !.state = "closed"]

-----------------------------------------------------------------------------
(* State machine *)

EnvChoices ==
    {e \in [EnvVars -> {<< >>} \cup {ApiKey(p) : p \in Providers}] :
        \A p \in Providers : e[EnvVar(p)] \in {<< >>, ApiKey(p)}}

InitOn(C) ==
    /\ envset \in SUBSET EnvVars
    /\ environ \in {e \in EnvChoices : \A v \in EnvVars \ envset : e[v] = << >>}
    /\ client = "none"
    /\ config = << >>
    /\ constructError = NoExc
    /\ pc = [c \in C |-> "idle"]
    /\ args = [c \in C |-> NoArgs]
    /\ session = [c \in C |-> NoSession]
    /\ nextSession = 0
    /\ posts = [c \in C |-> << >>]
    /\ resp = [c \in C |-> NoResp]
    /\ outcome = [c \in C |-> Pending]
    /\ extracted = [c \in C |-> FALSE]

callVars == <<pc, args, session, nextSession, posts, resp, outcome, extracted>>
clientVars == <<environ, envset, client, config, constructError>>

(* UniversalAIClient(): __init__ builds the mapping and validates it *)
Construct ==
    /\ client = "none"
    /\ LET cfg == BuildConfig(environ, envset)
           err == ValidateConfig(cfg)
       IN  /\ config' = cfg
           /\ constructError' = err
           /\ client' = IF err = NoExc THEN "ready" ELSE "failed"
    /\ UNCHANGED <<environ, envset, callVars>>

(* await client.chat(...) by caller c, up to the await of session.post *)
ChatOn(c, A) ==
    /\ client = "ready"
    /\ pc[c] = "idle"
    /\ \E a \in A :
         LET st == StartChat(config, nextSession + 1, a)
         IN  /\ args' = [args EXCEPT ![c] = a]
             /\ pc' = [pc EXCEPT ![c] = st.pc]
             /\ outcome' = [outcome EXCEPT ![c] = st.outcome]
             /\ session' = [session EXCEPT ![c] = st.session]
             /\ nextSession' = IF st.session.state = "open"
                               THEN nextSession + 1 ELSE nextSession
             /\ posts' = [posts EXCEPT ![c] = posts[c] \o st.posts]
    /\ UNCHANGED <<clientVars, resp, extracted>>

(* session.post raises: the 30 s timeout elapsed or the connection failed *)
PostRaisesOn(c, E) ==
    /\ pc[c] = "posted"
    /\ \E e \in E :
         outcome' = [outcome EXCEPT ![c] = Raised(Exc(e, "", "", 0, << >>))]
    /\ pc' = [pc EXCEPT ![c] = "done"]
    /\ session' = [session EXCEPT ![c] = Closed(session[c])]
    /\ UNCHANGED <<clientVars, args, nextSession, posts, resp, extracted>>

(* session.post yields the response: status line and headers are in *)
PostReturnsOn(c, R) ==
    /\ pc[c] = "posted"
    /\ \E r \in R : resp' = [resp EXCEPT ![c] = r]
    /\ pc' = [pc EXCEPT ![c] = "responded"]
    /\ UNCHANGED <<clientVars, args, session, nextSession, posts, outcome,
                   extracted>>

(* await resp.text() or await resp.json() raises while reading the body *)
ReadRaisesOn(c, E) ==
    /\ pc[c] = "responded"
    /\ \E e \in E :
         outcome' = [outcome EXCEPT ![c] = Raised(Exc(e, "", "", 0, << >>))]
    /\ pc' = [pc EXCEPT ![c] = "done"]
    /\ session' = [session EXCEPT ![c] = Closed(session[c])]
    /\ UNCHANGED <<clientVars, args, nextSession, posts, resp, extracted>>

(* the body is read: status check, decoding and extraction *)
Finish(c) ==
    /\ pc[c] = "responded"
    /\ LET h == HandleResponse(args[c].provider, resp[c])
       IN  /\ outcome' = [outcome EXCEPT ![c] = h.outcome]
           /\ extracted' = [extracted EXCEPT ![c] = h.extracted]
    /\ pc' = [pc EXCEPT ![c] = "done"]
    /\ session' = [session EXCEPT ![c] = Closed(session[c])]
    /\ UNCHANGED <<clientVars, args, nextSession, posts, resp>>

Init == InitOn(Calls)

Next ==
    \/ Construct
    \/ \E c \in Calls : ChatOn(c, ChatArgs)
    \/ \E c \in Calls : PostRaisesOn(c, PostErrors)
    \/ \E c \in Calls : PostReturnsOn(c, Responses)
    \/ \E c \in Calls : ReadRaisesOn(c, ReadErrors)
    \/ \E c \in Calls : Finish(c)

Spec == Init /\ [][Next]_vars

InitConc == InitOn(CallsConc)

NextConc ==
    \/ Construct
    \/ \E c \in CallsConc : ChatOn(c, ChatArgsConc)
    \/ \E c \in CallsConc : PostRaisesOn(c, PostErrorsConc)
    \/ \E c \in CallsConc : PostReturnsOn(c, ResponsesConc)
    \/ \E c \in CallsConc : ReadRaisesOn(c, ReadErrorsConc)
    \/ \E c \in CallsConc : Finish(c)

SpecConc == InitConc /\ [][NextConc]_vars

-----------------------------------------------------------------------------
(* Vocabulary of the properties *)

Done(c) == pc[c] = "done"
Started(c) == pc[c] # "idle"

(* the call read the whole body: it ended in the status check, the decoding
   or the extraction, not in an exception of the transport *)
BodyRead(c) ==
    /\ Done(c)
    /\ resp[c].status # 0
    /\ outcome[c].exc.type \notin ReadErrors

(* the credential the environment holds for provider p *)
Credential(p) == IF EnvVar(p) \in envset THEN environ[EnvVar(p)] ELSE << >>

(* what a caller's except clause tells apart: the exception class *)
ErrorKind(e) == e.type

IsConfigurationError(e) == e.type = "ValueError" /\ e.fmt = "Missing API key for"
IsUnknownProviderError(e) == e.type = "ValueError" /\ e.fmt = "Unknown provider"
IsApiError(e) == e.type = "RuntimeError" /\ e.fmt = "API error: HTTP"
IsMalformedResponseError(e) ==
    e.type = "RuntimeError" /\ e.fmt = "Invalid response format"

(* the four situations, as they show in the state *)
UnknownProviderCall(c) == Started(c) /\ args[c].provider \notin Providers
Non200Call(c) == BodyRead(c) /\ resp[c].status # HTTP_OK
DecodedCall(c) ==
    /\ BodyRead(c)
    /\ resp[c].status = HTTP_OK
    /\ resp[c].body.ctype = JsonContentType
    /\ resp[c].body.isJson

(* x lacks a key or a list element on the way along path *)
RECURSIVE LacksStep(_, _)
LacksStep(x, path) ==
    /\ path # << >>
    /\ LET k == Head(path)
       IN  \/ k.kind = "key" /\ x.t = "obj" /\ k.name \notin DOMAIN x.v
           \/ k.kind = "idx" /\ x.t = "list" /\ Len(x.v) <= k.i
           \/ /\ k.kind = "key" /\ x.t = "obj" /\ k.name \in DOMAIN x.v
              /\ LacksStep(x.v[k.name], Tail(path))
           \/ /\ k.kind = "idx" /\ x.t = "list" /\ Len(x.v) > k.i
              /\ LacksStep(x.v[k.i + 1], Tail(path))

MalformedCall(c) ==
    /\ DecodedCall(c)
    /\ LacksStep(resp[c].body.data, ReplyShape(args[c].provider))

(* the situations present in a state, each with the kind of its error *)
Observed ==
    (IF client = "failed"
     THEN {[situation |-> "missing credential", kind |-> ErrorKind(constructError)]}
     ELSE {})
    \cup {[situation |-> "unknown provider", kind |-> ErrorKind(outcome[c].exc)] :
            c \in {d \in DOMAIN pc : UnknownProviderCall(d)}}
    \cup {[situation |-> "non-200 status", kind |-> ErrorKind(outcome[c].exc)] :
            c \in {d \in DOMAIN pc : Non200Call(d)}}
    \cup {[situation |-> "malformed response", kind |-> ErrorKind(outcome[c].exc)] :
            c \in {d \in DOMAIN pc : MalformedCall(d)}}

-----------------------------------------------------------------------------
(* C1 (as stated): no two of the four error situations -- missing
   credential, unsupported provider, non-200 response, malformed 200
   response -- produce an error of the same kind. *)
C1_FourDistinctKinds ==
    \A a, b \in Observed : a.situation # b.situation => a.kind # b.kind

(* C1 (amended): the four situations surface under two exception classes:
   a missing credential and an unsupported provider both raise ValueError,
   a non-200 response and a malformed response both raise RuntimeError; the
   two situations of a class differ in the message only ("Missing API key
   for" / "Unknown provider", "API error: HTTP" / "Invalid response
   format"), and no ValueError situation shares its class with a
   RuntimeError situation. *)
C1_TwoKindsFourMessages ==
    /\ client = "failed" => IsConfigurationError(constructError)
    /\ \A c \in DOMAIN pc :
         /\ UnknownProviderCall(c) => IsUnknownProviderError(outcome[c].exc)
         /\ Non200Call(c) => IsApiError(outcome[c].exc)
         /\ MalformedCall(c) => IsMalformedResponseError(outcome[c].exc)

C1_Witness ==
    \E c, d \in DOMAIN pc :
        /\ Non200Call(c) /\ MalformedCall(d)
        /\ ErrorKind(outcome[c].exc) = ErrorKind(outcome[d].exc)

(* C2: every finished chat call either returned, or failed with exactly one
   of UnknownProviderError, ApiError, MalformedResponseError; a failure of
   the transport (timeout, connection failure, undecodable body) is an
   ApiError. *)
C2_OnlyThreeErrorKinds ==
    \A c \in DOMAIN pc :
        Done(c) =>
            \/ outcome[c].kind = "returned"
            \/ /\ outcome[c].kind = "raised"
               /\ \/ IsUnknownProviderError(outcome[c].exc)
                  \/ IsApiError(outcome[c].exc)
                  \/ IsMalformedResponseError(outcome[c].exc)

(* C3: a 200 response whose decoded JSON lacks a key or a list element
   somewhere on the provider's path (the body {} included) makes the call
   fail with the malformed-response error naming the provider and the failed
   lookup; it yields no result and no other failure. *)
C3_MissingStepIsMalformed ==
    \A c \in DOMAIN pc :
        MalformedCall(c) =>
            /\ outcome[c].kind = "raised"
            /\ IsMalformedResponseError(outcome[c].exc)
            /\ outcome[c].exc.provider = args[c].provider
            /\ outcome[c].exc.detail # << >>

C3_Witness ==
    \E c \in DOMAIN pc :
        /\ MalformedCall(c)
        /\ args[c].provider = "gemini"
        /\ resp[c].body.data = Broken("gemini", 4, EmptyList)
        /\ outcome[c].exc.detail = <<"list index out of range">>

(* C4: a call whose provider is not openai, claude or gemini fails with the
   unknown-provider error and never opens a session or issues a POST. *)
C4_UnknownProviderNoNetwork ==
    \A c \in DOMAIN pc :
        UnknownProviderCall(c) =>
            /\ Done(c)
            /\ outcome[c].kind = "raised"
            /\ IsUnknownProviderError(outcome[c].exc)
            /\ outcome[c].exc.provider = args[c].provider
            /\ session[c] = NoSession
            /\ posts[c] = << >>
            /\ resp[c].status = 0

C4_Witness ==
    \E c \in DOMAIN pc : UnknownProviderCall(c) /\ Done(c) /\ nextSession = 0

(* C5: construction succeeds when all three credentials are non-empty; when
   one is unset or empty it fails with the missing-key ValueError naming a
   provider whose credential is missing (that provider, when it is the only
   one); a constructed client never holds an empty credential. *)
C5_ConstructionFailsFast ==
    LET missing == {p \in Providers : Credential(p) = << >>}
    IN  /\ client # "none" =>
            /\ missing = {} => client = "ready" /\ constructError = NoExc
            /\ missing # {} =>
                 /\ client = "failed"
                 /\ IsConfigurationError(constructError)
                 /\ constructError.provider \in missing
        /\ client = "ready" =>
            \A p \in Providers : config[p].key = Credential(p) /\ config[p].key # << >>
        /\ \A c \in DOMAIN pc : Started(c) => client = "ready"

C5_Witness ==
    /\ client = "failed"
    /\ {p \in Providers : Credential(p) = << >>} = {"gemini"}
    /\ constructError.provider = "gemini"
    /\ "GOOGLE_API_KEY" \in envset

(* C6: a response with a status other than 200 makes the call fail with the
   API error carrying the provider name, the status and the body text; the
   call issues exactly one POST and the response never reaches extraction. *)
C6_Non200FailsWithoutRetry ==
    \A c \in DOMAIN pc :
        /\ Len(posts[c]) <= 1
        /\ resp[c].status \notin {0, HTTP_OK} =>
             /\ Len(posts[c]) = 1
             /\ ~extracted[c]
             /\ outcome[c].kind # "returned"
        /\ Non200Call(c) =>
             outcome[c] = Raised(Exc("RuntimeError", "API error: HTTP",
                                     args[c].provider, resp[c].status,
                                     resp[c].body.raw))

C6_Witness ==
    \E c \in DOMAIN pc :
        /\ Non200Call(c)
        /\ args[c].provider = "claude"
        /\ resp[c].status = 500
        /\ outcome[c].exc.detail = <<"server error">>
        /\ Len(posts[c]) = 1

(* C7: the request of every call places the credential as the provider
   requires: openai in Authorization as 'Bearer ' + credential at the
   unmodified endpoint, claude raw in x-api-key with anthropic-version
   2023-06-01 at the unmodified endpoint, gemini in the URL query ?key= and in
   no header; every request carries Content-Type: application/json. *)
C7_CredentialPlacement ==
    \A c \in DOMAIN pc : \A i \in DOMAIN posts[c] :
        LET req == posts[c][i]
            p == args[c].provider
            cred == Credential(p)
            names == DOMAIN req.headers
        IN  /\ cred # << >>
            /\ <<"Content-Type">> \in names
            /\ req.headers[<<"Content-Type">>] = <<"application/json">>
            /\ p = "openai" =>
                 /\ <<"Authorization">> \in names
                 /\ req.headers[<<"Authorization">>] = <<"Bearer ">> \o cred
                 /\ req.url = OpenAIUrl
            /\ p = "claude" =>
                 /\ <<"x-api-key">> \in names
                 /\ req.headers[<<"x-api-key">>] = cred
                 /\ <<"anthropic-version">> \in names
                 /\ req.headers[<<"anthropic-version">>] = <<"2023-06-01">>
                 /\ req.url = ClaudeUrl
            /\ p = "gemini" =>
                 /\ req.url = GeminiUrl \o <<"?key=">> \o cred
                 /\ \A h \in names : ~Contains(req.headers[h], cred)
            /\ p # "gemini" => ~Contains(req.url, cred)

C7_Witness ==
    \E c \in DOMAIN pc :
        /\ posts[c] # << >> /\ args[c].provider = "gemini"
        /\ posts[c][1].url = GeminiUrl \o <<"?key=", "AIza">>
        /\ DOMAIN posts[c][1].headers = {<<"Content-Type">>}

(* C8: a 200 response whose JSON has the provider's expected shape makes chat
   return exactly the text at the provider's own path, also when the body
   holds the paths of the other providers too. *)
C8_ReturnsTextAtOwnPath ==
    \A c \in DOMAIN pc :
        DecodedCall(c) =>
            LET p == args[c].provider
                data == resp[c].body.data
            IN  /\ \A text \in Texts :
                     data = WellFormed(p, text) => outcome[c] = Returned(Str(text))
                /\ data = Mixed => outcome[c] = Returned(Str(OwnText(p)))

C8_Witness ==
    \E c \in DOMAIN pc :
        /\ DecodedCall(c)
        /\ args[c].provider = "openai"
        /\ resp[c].body.data =
             Obj("choices" :> List(<<Obj("message" :>
                                         Obj("content" :> Str(<<"hello">>)))>>))
        /\ outcome[c] = Returned(Str(<<"hello">>))

(* C9: for every supported provider a custom model passed to chat is the
   model of the request payload, an omitted one gives the provider default,
   and prompt, max_tokens and temperature are in the payload unchanged. *)
C9_ModelOverrideEveryProvider ==
    \A c \in DOMAIN pc : \A i \in DOMAIN posts[c] :
        LET j == posts[c][i].json
            a == args[c]
        IN  /\ Truthy(a.model) =>
                 "model" \in DOMAIN j /\ j.model = a.model.s
            /\ a.provider = "openai" =>
                 /\ a.model = None => j.model = <<"gpt-4o">>
                 /\ j.messages = <<[role |-> <<"user">>, content |-> a.prompt]>>
                 /\ j.max_tokens = a.max_tokens
                 /\ j.temperature = a.temperature
            /\ a.provider = "claude" =>
                 /\ a.model = None => j.model = <<"claude-3-5-sonnet-20241022">>
                 /\ j.messages = <<[role |-> <<"user">>, content |-> a.prompt]>>
                 /\ j.max_tokens = a.max_tokens
                 /\ j.temperature = a.temperature
            /\ a.provider = "gemini" =>
                 /\ j.contents = <<[parts |-> <<[text |-> a.prompt]>>]>>
                 /\ j.generationConfig.maxOutputTokens = a.max_tokens
                 /\ j.generationConfig.temperature = a.temperature

(* C10 *)
OwnSessions ==
    /\ \A c, d \in DOMAIN pc :
         c # d /\ session[c].state # "none" /\ session[d].state # "none"
            => session[c].id # session[d].id
    /\ \A c \in DOMAIN pc :
         /\ \A i \in DOMAIN posts[c] : posts[c][i].session = session[c].id
         /\ pc[c] \in {"posted", "responded"} => session[c].state = "open"
         /\ Done(c) => session[c].state \in {"none", "closed"}

NoCallWaits ==
    \A c \in DOMAIN pc :
        /\ pc[c] = "idle" /\ client = "ready" => ENABLED ChatOn(c, ChatArgsConc)
        /\ pc[c] = "posted" => ENABLED PostReturnsOn(c, ResponsesConc)
        /\ pc[c] = "responded" => ENABLED Finish(c)

OwnOutcome ==
    \A c \in DOMAIN pc :
        Done(c) =>
            LET e == outcome[c].exc
                p == args[c].provider
            IN  IF p \notin Providers THEN IsUnknownProviderError(e)
                ELSE IF resp[c].status = 0 THEN e.type \in PostErrors
                ELSE \/ e.type \in ReadErrors
                     \/ resp[c].status # HTTP_OK /\ IsApiError(e)
                        /\ e.provider = p /\ e.status = resp[c].status
                     \/ /\ resp[c].status = HTTP_OK
                        /\ resp[c].body.data = Mixed
                        /\ outcome[c] = Returned(Str(OwnText(p)))
                     \/ /\ resp[c].status = HTTP_OK
                        /\ resp[c].body.data = EmptyObj
                        /\ IsMalformedResponseError(e) /\ e.provider = p

StepTouchesOwnCall ==
    \A c \in DOMAIN pc :
        pc'[c] # pc[c] =>
            \A d \in DOMAIN pc \ {c} :
                /\ pc'[d] = pc[d] /\ args'[d] = args[d]
                /\ session'[d] = session[d] /\ posts'[d] = posts[d]
                /\ resp'[d] = resp[d] /\ outcome'[d] = outcome[d]
                /\ extracted'[d] = extracted[d]

ConfigReadOnly == client = "ready" => config' = config /\ client' = client

(* C10: once the client is constructed the configuration mapping never
   changes; under every interleaving of concurrent calls each call has a
   session of its own, never waits for another call, changes no other call's
   state, and ends with the outcome its own provider and response determine. *)
C10_ConcurrentCallsIndependent ==
    /\ [][ConfigReadOnly]_vars
    /\ [][StepTouchesOwnCall]_vars
    /\ []OwnSessions
    /\ []NoCallWaits
    /\ []OwnOutcome

C10_Witness ==
    \E c, d \in DOMAIN pc :
        /\ c # d
        /\ pc[c] = "posted" /\ Done(d)
        /\ args[c].provider = args[d].provider
        /\ session[c].id = 2 /\ session[d].id = 1
        /\ outcome[d].kind = "returned"

====
